---------------------------- MODULE Spec2Model ----------------------------
(***************************************************************************)
(* A model of the AutoTestcase Generator: main.py, extract_text.py,        *)
(* export_excel.py and the two engines under ai_engines/.                  *)
(*                                                                         *)
(* Python strings are sequences of one-character strings, so that lower(), *)
(* strip(), suffix extraction and number formatting are computed.          *)
(* Python values are records [t, v]: t is the type tag, v the payload.     *)
(* An LLM response text is a sequence of lexemes (tokens): the six JSON    *)
(* punctuation marks, string literals, null, and prose ("junk") that is    *)
(* not JSON.  String literals and prose are taken to hold no brackets.     *)
(***************************************************************************)
EXTENDS Integers, Sequences, FiniteSets, TLC

VARIABLES
    pc,        \* position of the running entry point
    args,      \* the inputs of the entry point (command line or call arguments, installed packages)
    env,       \* what the entry point has bound so far (local variables)
    trace,     \* the calls made so far, in order (stages, file and network operations)
    stdout,    \* the lines printed so far, each a sequence of segments
    result     \* how the entry point ended: a return, a raise or an exit

vars == <<pc, args, env, trace, stdout, result>>

---------------------------------------------------------------------------
(* Bounds of the model *)

MaxTextLen == 4     \* longest response text enumerated lexeme by lexeme
MaxCases == 2       \* longest JSON array / test case list generated
MaxPages == 2       \* most pages (paragraphs) of a document

---------------------------------------------------------------------------
(* Python values *)

PyStr(s) == [t |-> "str", v |-> s]
PyNone == [t |-> "none", v |-> <<>>]
PyList(xs) == [t |-> "list", v |-> xs]
PyDict(f) == [t |-> "dict", v |-> f]
PyInt(n) == [t |-> "int", v |-> n]
EmptyDict == PyDict([k \in {} |-> PyNone])

\* isinstance(x, dict), isinstance(x, list)
IsDict(x) == x.t = "dict"
IsList(x) == x.t = "list"

\* dict.get(key, default)
Get(d, key, default) == IF key \in DOMAIN d.v THEN d.v[key] ELSE default

\* Python truthiness (bool(x)) of the values the model uses
Truthy(x) ==
    CASE x.t = "none" -> FALSE
      [] x.t = "str" -> Len(x.v) > 0
      [] x.t = "list" -> Len(x.v) > 0
      [] x.t = "dict" -> DOMAIN x.v # {}
      [] x.t = "int" -> x.v # 0
      [] OTHER -> TRUE

---------------------------------------------------------------------------
(* Python strings *)

UpperCase == <<"A","B","C","D","E","F","G","H","I","J","K","L","M",
               "N","O","P","Q","R","S","T","U","V","W","X","Y","Z">>
LowerCase == <<"a","b","c","d","e","f","g","h","i","j","k","l","m",
               "n","o","p","q","r","s","t","u","v","w","x","y","z">>

LowerChar(c) ==
    IF \E i \in DOMAIN UpperCase : UpperCase[i] = c
    THEN LowerCase[CHOOSE i \in DOMAIN UpperCase : UpperCase[i] = c]
    ELSE c

\* str.lower()
Lower(s) == [i \in DOMAIN s |-> LowerChar(s[i])]

IsSpace(c) == c \in {" ", "\n", "\t"}

RECURSIVE LStrip(_)
LStrip(s) == IF s # <<>> /\ IsSpace(Head(s)) THEN LStrip(Tail(s)) ELSE s

RECURSIVE RStrip(_)
RStrip(s) ==
    IF s # <<>> /\ IsSpace(s[Len(s)]) THEN RStrip(SubSeq(s, 1, Len(s) - 1)) ELSE s

\* str.strip()
Strip(s) == RStrip(LStrip(s))

\* str.find(c) and str.rfind(c): 0-based index, -1 when absent
Find(s, c) ==
    IF \E i \in DOMAIN s : s[i] = c
    THEN (CHOOSE i \in DOMAIN s : s[i] = c /\ \A j \in 1..(i - 1) : s[j] # c) - 1
    ELSE -1

RFind(s, c) ==
    IF \E i \in DOMAIN s : s[i] = c
    THEN (CHOOSE i \in DOMAIN s : s[i] = c /\ \A j \in (i + 1)..Len(s) : s[j] # c) - 1
    ELSE -1

\* s[a:b] for 0 <= a, 0 <= b
Slice(s, a, b) == SubSeq(s, a + 1, IF b > Len(s) THEN Len(s) ELSE b)

DigitChars == <<"0","1","2","3","4","5","6","7","8","9">>

RECURSIVE DecimalDigits(_)
DecimalDigits(n) ==
    IF n < 10 THEN <<DigitChars[n + 1]>>
    ELSE DecimalDigits(n \div 10) \o <<DigitChars[(n % 10) + 1]>>

RECURSIVE ZeroPad(_, _)
ZeroPad(s, width) == IF Len(s) >= width THEN s ELSE ZeroPad(<<"0">> \o s, width)

\* f'{n:03d}'
PadWidth == 3
Format03d(n) == ZeroPad(DecimalDigits(n), PadWidth)

\* f'{n}'
FormatInt(n) == DecimalDigits(n)

---------------------------------------------------------------------------
(* How a call ends *)

Return(v) == [kind |-> "return", exc |-> "", msg |-> <<>>, val |-> v]
Raise(exc, msg) == [kind |-> "raise", exc |-> exc, msg |-> msg, val |-> PyNone]
Exit(code) == [kind |-> "exit", exc |-> "SystemExit", msg |-> <<>>, val |-> PyInt(code)]
Running == [kind |-> "running", exc |-> "", msg |-> <<>>, val |-> PyNone]

\* "except Exception" catches every raise; sys.exit (SystemExit) passes through
CaughtByExceptException(r) == r.kind = "raise"

---------------------------------------------------------------------------
(* The keys and defaults of a test case *)

K_feature == <<"f","e","a","t","u","r","e">>
K_test_id == <<"t","e","s","t","_","i","d">>
K_title == <<"t","i","t","l","e">>
K_steps == <<"s","t","e","p","s">>
K_expected_result == <<"e","x","p","e","c","t","e","d","_","r","e","s","u","l","t">>
K_priority == <<"p","r","i","o","r","i","t","y">>
K_extra == <<"n","o","t","e">>

TestCaseKeys == {K_feature, K_test_id, K_title, K_steps, K_expected_result, K_priority}

S_Feature == <<"F","e","a","t","u","r","e"," ">>
S_TC == <<"T","C">>
S_TestCase == <<"T","e","s","t"," ","C","a","s","e"," ">>
S_Medium == <<"M","e","d","i","u","m">>
S_High == <<"H","i","g","h">>

---------------------------------------------------------------------------
(* JSON text: lexemes, json.loads and (for generating responses) json.dumps *)

Tok(kind, s) == [t |-> kind, v |-> s]
LBracket == Tok("p", <<"[">>)
RBracket == Tok("p", <<"]">>)
LBrace == Tok("p", <<"{">>)
RBrace == Tok("p", <<"}">>)
Comma == Tok("p", <<",">>)
Colon == Tok("p", <<":">>)
NullTok == Tok("null", <<"n","u","l","l">>)
Junk == Tok("junk", <<"H","e","r","e">>)
Lit(s) == Tok("lit", s)

Text(toks) == [t |-> "text", v |-> toks]

ParseFail == [ok |-> FALSE, next |-> 0, val |-> PyNone]
ParseOk(n, v) == [ok |-> TRUE, next |-> n, val |-> v]

RECURSIVE ParseValue(_, _)
RECURSIVE ParseElements(_, _, _)
RECURSIVE ParseMembers(_, _, _)

\* one JSON value starting at lexeme i (1-based)
ParseValue(s, i) ==
    IF i > Len(s) THEN ParseFail
    ELSE CASE s[i].t = "lit" -> ParseOk(i + 1, PyStr(s[i].v))
           [] s[i].t = "null" -> ParseOk(i + 1, PyNone)
           [] s[i] = LBracket ->
                IF i + 1 <= Len(s) /\ s[i + 1] = RBracket
                THEN ParseOk(i + 2, PyList(<<>>))
                ELSE ParseElements(s, i + 1, <<>>)
           [] s[i] = LBrace ->
                IF i + 1 <= Len(s) /\ s[i + 1] = RBrace
                THEN ParseOk(i + 2, EmptyDict)
                ELSE ParseMembers(s, i + 1, EmptyDict.v)
           [] OTHER -> ParseFail

\* value ("," value)* "]"
ParseElements(s, i, acc) ==
    LET r == ParseValue(s, i) IN
    IF ~r.ok \/ r.next > Len(s) THEN ParseFail
    ELSE IF s[r.next] = Comma THEN ParseElements(s, r.next + 1, Append(acc, r.val))
    ELSE IF s[r.next] = RBracket THEN ParseOk(r.next + 1, PyList(Append(acc, r.val)))
    ELSE ParseFail

\* string ":" value ("," string ":" value)* "}"; a repeated key keeps the last value
ParseMembers(s, i, d) ==
    IF i + 1 > Len(s) \/ s[i].t # "lit" \/ s[i + 1] # Colon THEN ParseFail
    ELSE LET r == ParseValue(s, i + 2)
             d2 == [k \in DOMAIN d \cup {s[i].v} |-> IF k = s[i].v THEN r.val ELSE d[k]]
         IN
         IF ~r.ok \/ r.next > Len(s) THEN ParseFail
         ELSE IF s[r.next] = Comma THEN ParseMembers(s, r.next + 1, d2)
         ELSE IF s[r.next] = RBrace THEN ParseOk(r.next + 1, PyDict(d2))
         ELSE ParseFail

\* json.loads: one value and nothing after it, else JSONDecodeError
Loads(s) ==
    LET r == ParseValue(s, 1) IN
    IF r.ok /\ r.next = Len(s) + 1
    THEN Return(r.val)
    ELSE Raise("JSONDecodeError", <<"{e}">>)

---------------------------------------------------------------------------
(* ai_engines/openai_engine.py and ai_engines/gemini_engine.py.  The two   *)
(* classes differ in the API call and in the engine's name in messages.    *)

EngineNames == {"OpenAI", "Gemini"}

\* mutant of ValidatedTc: "tc.get(key) or default", which also replaces a null
Mut_ValidatedTc_OrDefault(tc, i) ==
    LET GetOr(key, default) ==
            IF key \in DOMAIN tc.v /\ Truthy(tc.v[key]) THEN tc.v[key] ELSE default
    IN
    PyDict([k \in TestCaseKeys |->
        CASE k = K_feature -> GetOr(K_feature, PyStr(S_Feature \o FormatInt(i + 1)))
          [] k = K_test_id -> GetOr(K_test_id, PyStr(S_TC \o Format03d(i + 1)))
          [] k = K_title -> GetOr(K_title, PyStr(S_TestCase \o FormatInt(i + 1)))
          [] k = K_steps -> GetOr(K_steps, PyList(<<>>))
          [] k = K_expected_result -> GetOr(K_expected_result, PyStr(<<>>))
          [] k = K_priority -> GetOr(K_priority, PyStr(S_Medium))])

\* the dict built for element tc at 0-based position i of the response array
ValidatedTc(tc, i) ==
    PyDict([k \in TestCaseKeys |->
        CASE k = K_feature -> Get(tc, K_feature, PyStr(S_Feature \o FormatInt(i + 1)))
          [] k = K_test_id -> Get(tc, K_test_id, PyStr(S_TC \o Format03d(i + 1)))
          [] k = K_title -> Get(tc, K_title, PyStr(S_TestCase \o FormatInt(i + 1)))
          [] k = K_steps -> Get(tc, K_steps, PyList(<<>>))
          [] k = K_expected_result -> Get(tc, K_expected_result, PyStr(<<>>))
          [] k = K_priority -> Get(tc, K_priority, PyStr(S_Medium))])

\* whether the loop appends a record for element tc ("continue" when it is no dict)
KeepsElement(tc) == IsDict(tc)

\* mutant of ValidateFrom: numbers the defaults by len(validated_testcases) + 1
Mut_ValidateFrom_Renumber(testcases, n) ==
    LET kept == SelectSeq(SubSeq(testcases, n, Len(testcases)), KeepsElement) IN
    [j \in 1..Len(kept) |-> ValidatedTc(kept[j], j - 1)]

\* the loop over enumerate(testcases), from 1-based position n on
RECURSIVE ValidateFrom(_, _)
ValidateFrom(testcases, n) ==
    IF n > Len(testcases) THEN <<>>
    ELSE (IF KeepsElement(testcases[n])
          THEN <<ValidatedTc(testcases[n], n - 1)>>
          ELSE <<>>) \o ValidateFrom(testcases, n + 1)

\* the body of _parse_response's try block
ParseResponseBody(response_content) ==
    IF response_content.t # "text"
    THEN Raise("AttributeError", <<"{e}">>)      \* None has no find()
    ELSE
    LET start_idx == Find(response_content.v, LBracket)
        end_idx == RFind(response_content.v, RBracket) + 1
        json_content == Slice(response_content.v, start_idx, end_idx)
        loaded == Loads(json_content)
    IN
    IF start_idx = -1 \/ end_idx = 0
    THEN Raise("ValueError", <<"No JSON array found in response">>)
    ELSE IF loaded.kind = "raise" THEN loaded
    ELSE IF ~IsList(loaded.val)
    THEN Raise("ValueError", <<"Response is not a list of test cases">>)
    ELSE Return(PyList(ValidateFrom(loaded.val.v, 1)))

\* mutant of _parse_response: text that is not JSON gives an empty list
Mut_parse_response_EmptyOnBadJson(name, response_content) ==
    LET r == ParseResponseBody(response_content) IN
    IF r.kind = "raise" /\ r.exc = "JSONDecodeError"
    THEN Return(PyList(<<>>))
    ELSE IF CaughtByExceptException(r)
    THEN Raise("Exception", <<"Error parsing ", name, " response: ">> \o r.msg)
    ELSE r

\* _parse_response with its two except clauses
_parse_response(name, response_content) ==
    LET r == ParseResponseBody(response_content) IN
    IF r.kind = "raise" /\ r.exc = "JSONDecodeError"
    THEN Raise("Exception", <<"Failed to parse JSON response: ">> \o r.msg)
    ELSE IF CaughtByExceptException(r)
    THEN Raise("Exception", <<"Error parsing ", name, " response: ">> \o r.msg)
    ELSE r

\* what the except clause of generate_testcases does with a raise of the try block
WrapApiError(name, r) ==
    IF CaughtByExceptException(r)
    THEN Raise("Exception", <<"Error calling ", name, " API: ">> \o r.msg)
    ELSE r

\* mutant of ApiRequests: a second request after the first
Mut_ApiRequests_Retry == <<"api_request", "api_request">>

\* the requests generate_testcases sends: one
ApiRequests == <<"api_request">>

\* generate_testcases: api is how the one API request ends (a raise, or the
\* response's content); out is how the call ends, events the calls it made
generate_testcases(name, api) ==
    IF api.kind = "raise"
    THEN [out |-> WrapApiError(name, api), events |-> ApiRequests]
    ELSE [out |-> WrapApiError(name, _parse_response(name, api.val)),
          events |-> ApiRequests \o <<"_parse_response">>]

---------------------------------------------------------------------------
(* The responses the API may give: every lexeme sequence up to MaxTextLen, *)
(* and serialised arrays (as the prompt asks for) of up to MaxCases        *)
(* elements, bare, wrapped in prose, or cut short.                         *)

SeqsUpTo(S, n) == UNION {[1..k -> S] : k \in 0..n}

KeyOrder == <<K_feature, K_test_id, K_title, K_steps, K_expected_result, K_priority, K_extra>>

RECURSIVE Dumps(_)
RECURSIVE DumpsItems(_)
RECURSIVE DumpsMembers(_, _)

\* json.dumps
Dumps(x) ==
    CASE x.t = "str" -> <<Lit(x.v)>>
      [] x.t = "none" -> <<NullTok>>
      [] x.t = "list" -> <<LBracket>> \o DumpsItems(x.v) \o <<RBracket>>
      [] x.t = "dict" ->
            <<LBrace>>
            \o DumpsMembers(x.v, SelectSeq(KeyOrder, LAMBDA k : k \in DOMAIN x.v))
            \o <<RBrace>>

DumpsItems(xs) ==
    IF xs = <<>> THEN <<>>
    ELSE Dumps(Head(xs)) \o (IF Tail(xs) = <<>> THEN <<>> ELSE <<Comma>> \o DumpsItems(Tail(xs)))

DumpsMembers(d, keys) ==
    IF keys = <<>> THEN <<>>
    ELSE <<Lit(Head(keys)), Colon>> \o Dumps(d[Head(keys)])
         \o (IF Tail(keys) = <<>> THEN <<>> ELSE <<Comma>> \o DumpsMembers(d, Tail(keys)))

S_TC002 == <<"T","C","0","0","2">>
S_Login == <<"L","o","g","i","n">>

TcOnlyId == PyDict([k \in {K_test_id} |-> PyStr(S_TC002)])
TcOdd ==
    PyDict([k \in {K_test_id, K_steps} |-> IF k = K_test_id THEN PyNone ELSE PyStr(S_Login)])
TcFull ==
    PyDict([k \in TestCaseKeys \cup {K_extra} |->
        CASE k = K_feature -> PyStr(S_Login)
          [] k = K_test_id -> PyStr(S_TC \o <<"0","0","1">>)
          [] k = K_title -> PyStr(S_Login)
          [] k = K_steps -> PyList(<<PyStr(S_Login), PyStr(S_High)>>)
          [] k = K_expected_result -> PyStr(S_Login)
          [] k = K_priority -> PyStr(S_High)
          [] k = K_extra -> PyNone])

\* the elements a response array is built from: objects and non-objects
ElementPool ==
    {EmptyDict, TcOnlyId, TcOdd, TcFull, PyStr(S_Login), PyNone, PyList(<<PyStr(S_Login)>>)}

\* enough elements for a default number to take two digits
LongLen == 11
LongArray == [n \in 1..LongLen |-> IF n = 3 THEN PyNone ELSE IF n = 5 THEN TcOnlyId ELSE EmptyDict]

ResponseArrays == SeqsUpTo(ElementPool, MaxCases) \cup {LongArray}

Alphabet == {LBracket, RBracket, LBrace, RBrace, Comma, Colon, Junk, NullTok, Lit(K_test_id)}

ShortTexts == SeqsUpTo(Alphabet, MaxTextLen)

DumpedTexts ==
    {pre \o Dumps(PyList(a)) \o post : pre \in {<<>>, <<Junk>>}, post \in {<<>>, <<Junk>>},
                                       a \in ResponseArrays}

CutTexts ==
    {SubSeq(Dumps(PyList(a)), 1, Len(Dumps(PyList(a))) - 1) : a \in ResponseArrays}
    \cup {Tail(Dumps(PyList(a))) : a \in ResponseArrays}
    \cup {Dumps(x) : x \in ElementPool}

ResponseTexts == ShortTexts \cup DumpedTexts \cup CutTexts

\* message.content / response.text: a text, or None
ResponseContents == {PyNone} \cup {Text(toks) : toks \in ResponseTexts}

\* how the API request ends
ApiOutcomes == {Raise("APIError", <<"{e}">>)} \cup {Return(c) : c \in ResponseContents}

---------------------------------------------------------------------------
(* Entry point: a constructed engine, on which the caller calls            *)
(* _parse_response or generate_testcases once.                             *)

\* available: OPENAI_AVAILABLE and GEMINI_AVAILABLE, set when the modules are imported
NoArgs ==
    [engine |-> "", input_file |-> <<>>, testcases |-> PyNone,
     available |-> [OpenAI |-> TRUE, Gemini |-> TRUE]]

InitEngine ==
    /\ pc = "constructed"
    /\ \E name \in EngineNames : args = [NoArgs EXCEPT !.engine = name]
    /\ env = [call |-> "", response |-> PyNone]
    /\ trace = <<>>
    /\ stdout = <<>>
    /\ result = Running

CallParseResponse ==
    /\ pc = "constructed"
    /\ \E c \in ResponseContents :
        /\ env' = [call |-> "_parse_response", response |-> c]
        /\ result' = _parse_response(args.engine, c)
    /\ pc' = "returned"
    /\ trace' = trace \o <<"_parse_response">>
    /\ UNCHANGED <<args, stdout>>

CallGenerateTestcases ==
    /\ pc = "constructed"
    /\ \E api \in ApiOutcomes :
        LET g == generate_testcases(args.engine, api) IN
        /\ env' = [call |-> "generate_testcases", response |-> api.val]
        /\ result' = g.out
        /\ trace' = trace \o g.events
    /\ pc' = "returned"
    /\ UNCHANGED <<args, stdout>>

NextEngine == CallParseResponse \/ CallGenerateTestcases

SpecEngine == InitEngine /\ [][NextEngine]_vars

---------------------------------------------------------------------------
(* export_excel.py *)

Columns ==
    <<"Test ID", "Feature", "Test Case Title", "Test Steps", "Expected Result",
      "Priority", "Status", "Actual Result", "Notes">>

ColumnSet == {Columns[i] : i \in DOMAIN Columns}

S_NotExecuted == <<"N","o","t"," ","E","x","e","c","u","t","e","d">>
S_None == <<"N","o","n","e">>

RECURSIVE Join(_, _)
\* sep.join(parts)
Join(parts, sep) ==
    IF parts = <<>> THEN <<>>
    ELSE IF Len(parts) = 1 THEN parts[1]
    ELSE parts[1] \o sep \o Join(Tail(parts), sep)

RECURSIVE Repr(_)
\* repr(x); a dict's items are shown in KeyOrder
Repr(x) ==
    CASE x.t = "str" -> <<"'">> \o x.v \o <<"'">>
      [] x.t = "none" -> S_None
      [] x.t = "int" -> DecimalDigits(x.v)
      [] x.t = "list" ->
            <<"[">> \o Join([i \in DOMAIN x.v |-> Repr(x.v[i])], <<",", " ">>) \o <<"]">>
      [] x.t = "dict" ->
            LET keys == SelectSeq(KeyOrder, LAMBDA k : k \in DOMAIN x.v) IN
            <<"{">>
            \o Join([i \in DOMAIN keys |->
                        Repr(PyStr(keys[i])) \o <<":", " ">> \o Repr(x.v[keys[i]])],
                    <<",", " ">>)
            \o <<"}">>

\* str(x), f"{x}"
Str(x) == IF x.t = "str" THEN x.v ELSE Repr(x)

\* the numbered steps, or str() of a steps value that is no list
StepsText(tc) ==
    IF IsList(Get(tc, K_steps, PyNone))
    THEN Join([i \in DOMAIN tc.v[K_steps].v |->
                    FormatInt(i) \o <<".", " ">> \o Str(tc.v[K_steps].v[i])],
              <<"\n">>)
    ELSE Str(Get(tc, K_steps, PyStr(<<>>)))

\* mutant of BuildRow: the status is taken from the test case when it has one
Mut_BuildRow_StatusFromTc(tc) ==
    [c \in ColumnSet |->
        CASE c = "Test ID" -> Get(tc, K_test_id, PyStr(<<>>))
          [] c = "Feature" -> Get(tc, K_feature, PyStr(<<>>))
          [] c = "Test Case Title" -> Get(tc, K_title, PyStr(<<>>))
          [] c = "Test Steps" -> PyStr(StepsText(tc))
          [] c = "Expected Result" -> Get(tc, K_expected_result, PyStr(<<>>))
          [] c = "Priority" -> Get(tc, K_priority, PyStr(S_Medium))
          [] c = "Status" -> Get(tc, <<"s","t","a","t","u","s">>, PyStr(S_NotExecuted))
          [] c = "Actual Result" -> PyStr(<<>>)
          [] c = "Notes" -> PyStr(<<>>)]

\* the row built for one test case
BuildRow(tc) ==
    [c \in ColumnSet |->
        CASE c = "Test ID" -> Get(tc, K_test_id, PyStr(<<>>))
          [] c = "Feature" -> Get(tc, K_feature, PyStr(<<>>))
          [] c = "Test Case Title" -> Get(tc, K_title, PyStr(<<>>))
          [] c = "Test Steps" -> PyStr(StepsText(tc))
          [] c = "Expected Result" -> Get(tc, K_expected_result, PyStr(<<>>))
          [] c = "Priority" -> Get(tc, K_priority, PyStr(S_Medium))
          [] c = "Status" -> PyStr(S_NotExecuted)
          [] c = "Actual Result" -> PyStr(<<>>)
          [] c = "Notes" -> PyStr(<<>>)]

\* the for loop over testcases
BuildRows(testcases) == [j \in DOMAIN testcases |-> BuildRow(testcases[j])]

\* openpyxl writes strings, numbers and None, and raises ValueError for a
\* list or a dict in a cell
Writable(rows) ==
    \A j \in DOMAIN rows : \A c \in ColumnSet : rows[j][c].t \in {"str", "none", "int"}

\* how the file system answers mkdir and the writing of the workbook
IoOutcomes == {"ok", "mkdir_fails", "write_fails"}

\* save_testcases_to_excel: out is how the call ends, rows the rows built,
\* events the file operations made, prints what it printed
save_testcases_to_excel(testcases, io) ==
    IF ~Truthy(testcases)
    THEN [out |-> Raise("ValueError", <<"No test cases to export">>),
          rows |-> <<>>, events |-> <<>>, prints |-> <<>>]
    ELSE LET rows == BuildRows(testcases.v) IN
         IF io = "mkdir_fails"
         THEN [out |-> Raise("OSError", <<"{e}">>), rows |-> rows,
               events |-> <<"mkdir">>, prints |-> <<>>]
         ELSE IF io = "write_fails" \/ ~Writable(rows)
         THEN [out |-> Raise(IF Writable(rows) THEN "OSError" ELSE "ValueError", <<"{e}">>),
               rows |-> rows, events |-> <<"mkdir", "ExcelWriter">>, prints |-> <<>>]
         ELSE [out |-> Return(PyNone), rows |-> rows,
               events |-> <<"mkdir", "ExcelWriter">>,
               prints |-> << <<"Excel file saved successfully: ", "{output_path}">> >>]

\* a test case with keys the export does not read
TcStatus ==
    PyDict([k \in {K_title, <<"s","t","a","t","u","s">>, <<"n","o","t","e","s">>} |->
                PyStr(S_Login)])

\* a test case whose title is a list, which no cell can hold
TcListTitle == PyDict([k \in {K_title} |-> PyList(<<PyStr(S_Login)>>)])

\* the test cases a caller may pass: validated records and other dicts
TestCasePool ==
    {EmptyDict, TcOnlyId, TcOdd, TcFull, TcStatus, TcListTitle,
     ValidatedTc(EmptyDict, 0), ValidatedTc(TcFull, 1)}

TestCaseLists == {PyList(l) : l \in SeqsUpTo(TestCasePool, MaxCases)}

InitExport ==
    /\ pc = "export"
    /\ \E l \in TestCaseLists : args = [NoArgs EXCEPT !.testcases = l]
    /\ env = [call |-> "", rows |-> <<>>]
    /\ trace = <<>>
    /\ stdout = <<>>
    /\ result = Running

CallSave ==
    /\ pc = "export"
    /\ \E io \in IoOutcomes :
        LET r == save_testcases_to_excel(args.testcases, io) IN
        /\ env' = [call |-> "save_testcases_to_excel", rows |-> r.rows]
        /\ result' = r.out
        /\ trace' = trace \o r.events
        /\ stdout' = stdout \o r.prints
    /\ pc' = "returned"
    /\ UNCHANGED args

NextExport == CallSave

SpecExport == InitExport /\ [][NextExport]_vars

---------------------------------------------------------------------------
(* extract_text.py *)

\* PurePosixPath(file_path).name: the last component, trailing slashes dropped
RECURSIVE PathName(_)
PathName(path) ==
    IF path # <<>> /\ path[Len(path)] = "/" THEN PathName(SubSeq(path, 1, Len(path) - 1))
    ELSE Slice(path, RFind(path, "/") + 1, Len(path))

\* Path(file_path).suffix: from the name's last dot on, unless that dot is the
\* name's first or last character
Suffix(path) ==
    LET name == PathName(path)
        i == RFind(name, ".")
    IN IF 0 < i /\ i < Len(name) - 1 THEN Slice(name, i, Len(name)) ELSE <<>>

Ext_pdf == <<".","p","d","f">>
Ext_docx == <<".","d","o","c","x">>
Ext_txt == <<".","t","x","t">>

\* the text a page (paragraph) gives; a PDF page may give None
PageTexts == {PyStr(<<>>), PyStr(<<" ">>), PyStr(<<"R","1">>)}

\* the document on disk and the libraries installed: how opening it ends
\* ("decode_error": the bytes are not UTF-8; "decode_error_then_error": nor can
\* the file be read a second time), and its pages (paragraphs; for a text
\* file, its stretches of text)
Documents ==
    [pdf_available : BOOLEAN, docx_available : BOOLEAN,
     open : {"ok", "error", "decode_error", "decode_error_then_error"},
     pages : SeqsUpTo(PageTexts \cup {PyNone}, MaxPages)]

RECURSIVE ConcatPages(_, _)
\* text_content += page + end, page by page
ConcatPages(pages, end) ==
    IF pages = <<>> THEN <<>> ELSE Head(pages).v \o end \o ConcatPages(Tail(pages), end)

extract_text_from_pdf(doc) ==
    IF ~doc.pdf_available
    THEN [out |-> Raise("ImportError", <<"PyPDF2 is required to read PDF files. Install with: pip install PyPDF2">>),
          events |-> <<"extract_text_from_pdf">>]
    ELSE IF doc.open # "ok" \/ \E i \in DOMAIN doc.pages : doc.pages[i].t # "str"
    THEN [out |-> Raise("Exception", <<"Error reading PDF file: ", "{e}">>),
          events |-> <<"extract_text_from_pdf", "open">>]
    ELSE [out |-> Return(PyStr(ConcatPages(doc.pages, <<"\n">>))),
          events |-> <<"extract_text_from_pdf", "open">>]

\* python-docx gives every paragraph a text (a None page stands for an empty one)
ParagraphText(p) == IF p.t = "str" THEN p ELSE PyStr(<<>>)

extract_text_from_docx(doc) ==
    IF ~doc.docx_available
    THEN [out |-> Raise("ImportError", <<"python-docx is required to read DOCX files. Install with: pip install python-docx">>),
          events |-> <<"extract_text_from_docx">>]
    ELSE IF doc.open # "ok"
    THEN [out |-> Raise("Exception", <<"Error reading DOCX file: ", "{e}">>),
          events |-> <<"extract_text_from_docx", "open">>]
    ELSE [out |-> Return(PyStr(ConcatPages([i \in DOMAIN doc.pages |-> ParagraphText(doc.pages[i])],
                                           <<"\n">>))),
          events |-> <<"extract_text_from_docx", "open">>]

\* UTF-8 first; on UnicodeDecodeError the file is opened again as latin-1,
\* which decodes any bytes
extract_text_from_txt(doc) ==
    LET content == PyStr(ConcatPages([i \in DOMAIN doc.pages |-> ParagraphText(doc.pages[i])],
                                     <<>>))
    IN
    CASE doc.open = "ok" ->
            [out |-> Return(content), events |-> <<"extract_text_from_txt", "open">>]
      [] doc.open = "decode_error" ->
            [out |-> Return(content), events |-> <<"extract_text_from_txt", "open", "open">>]
      [] doc.open = "decode_error_then_error" ->
            [out |-> Raise("Exception", <<"Error reading TXT file: ", "{e}">>),
             events |-> <<"extract_text_from_txt", "open", "open">>]
      [] OTHER ->
            [out |-> Raise("Exception", <<"Error reading TXT file: ", "{e}">>),
             events |-> <<"extract_text_from_txt", "open">>]

\* mutant of Extension: the suffix is compared as written
Mut_Extension_CaseSensitive(file_path) == Suffix(file_path)

\* the extension the dispatch compares
Extension(file_path) == Lower(Suffix(file_path))

extract_text_from_file(file_path, doc) ==
    CASE Extension(file_path) = Ext_pdf -> extract_text_from_pdf(doc)
      [] Extension(file_path) = Ext_docx -> extract_text_from_docx(doc)
      [] Extension(file_path) = Ext_txt -> extract_text_from_txt(doc)
      [] OTHER ->
            [out |-> Raise("ValueError",
                           <<"Unsupported file format: ", "{extension}",
                             ". Supported formats: .pdf, .docx, .txt">>),
             events |-> <<>>]

\* file paths: a directory part, a stem and an ending
PathDirs == {<<>>, <<"d",".","t","x","t","/">>}
PathStems == {<<>>, <<"a">>, <<"a",".","p","d","f">>}
PathEndings ==
    {<<>>, <<".">>, <<"/">>, Ext_pdf, <<".","P","D","F">>, <<".","P","d","f">>,
     Ext_docx, <<".","D","O","C","X">>, Ext_txt, <<".","T","x","T">>,
     <<".","d","o","c">>, <<".","m","d">>, <<".","t","x","t","x">>, <<"t","x","t">>}

FilePaths == {d \o st \o e : d \in PathDirs, st \in PathStems, e \in PathEndings} \ {<<>>}

InitExtract ==
    /\ pc = "extract"
    /\ \E f \in FilePaths : args = [NoArgs EXCEPT !.input_file = f]
    /\ env = [call |-> "", doc |-> <<>>]
    /\ trace = <<>>
    /\ stdout = <<>>
    /\ result = Running

CallExtract ==
    /\ pc = "extract"
    /\ \E doc \in Documents :
        LET r == extract_text_from_file(args.input_file, doc) IN
        /\ env' = [call |-> "extract_text_from_file", doc |-> doc]
        /\ result' = r.out
        /\ trace' = trace \o r.events
    /\ pc' = "returned"
    /\ UNCHANGED <<args, stdout>>

NextExtract == CallExtract

SpecExtract == InitExtract /\ [][NextExtract]_vars

---------------------------------------------------------------------------
(* main.py.  Printed lines are sequences of segments, "{...}" standing for *)
(* an interpolated value; the emoji that start the lines are left out.     *)

K_ai_engine == <<"a","i","_","e","n","g","i","n","e">>
K_openai == <<"o","p","e","n","a","i">>
K_gemini == <<"g","e","m","i","n","i">>
K_api_key == <<"a","p","i","_","k","e","y">>

\* how reading the configuration file ends: its state, and what it parses to
ConfigFile(state, config) == [state |-> state, config |-> config]

load_config(file) ==
    CASE file.state = "missing" ->
            [out |-> Exit(1), events |-> <<"open">>,
             prints |-> << <<"Configuration file '", "{config_path}", "' not found.">> >>]
      [] file.state = "yaml_error" ->
            [out |-> Exit(1), events |-> <<"open">>,
             prints |-> << <<"Error parsing configuration file: ", "{e}">> >>]
      [] file.state = "unreadable" ->
            [out |-> Raise("PermissionError", <<"{e}">>), events |-> <<"open">>,
             prints |-> <<>>]
      [] OTHER ->
            [out |-> Return(file.config), events |-> <<"open">>, prints |-> <<>>]

Engine(name) == [t |-> "engine", v |-> name]

\* OpenAIEngine.__init__ and GeminiEngine.__init__
EngineInit(name, api_key, available) ==
    IF ~available
    THEN Raise("ImportError", <<name, " package is required">>)
    ELSE IF ~Truthy(api_key)
    THEN Raise("ValueError", <<name, " API key is required">>)
    ELSE Return(Engine(name))

EngineClass(name) == IF name = "OpenAI" THEN "OpenAIEngine" ELSE "GeminiEngine"

\* the branch of get_ai_engine for one engine: section_key is 'openai' or 'gemini'
BuildEngine(name, section_key, config, available) ==
    LET section == Get(config, section_key, EmptyDict) IN
    IF ~IsDict(section)
    THEN [out |-> Raise("AttributeError", <<"{e}">>), events |-> <<>>, prints |-> <<>>]
    ELSE [out |-> EngineInit(name, Get(section, K_api_key, PyNone), available[name]),
          events |-> <<EngineClass(name)>>, prints |-> <<>>]

\* mutant of EngineType: the configured value is compared as written
Mut_EngineType_CaseSensitive(config) == Get(config, K_ai_engine, PyStr(K_openai)).v

\* config.get('ai_engine', 'openai').lower(), for a string value
EngineType(config) == Lower(Get(config, K_ai_engine, PyStr(K_openai)).v)

get_ai_engine(config, available) ==
    IF ~IsDict(config) \/ Get(config, K_ai_engine, PyStr(K_openai)).t # "str"
    THEN [out |-> Raise("AttributeError", <<"{e}">>), events |-> <<>>, prints |-> <<>>]
    ELSE IF EngineType(config) = K_openai
    THEN BuildEngine("OpenAI", K_openai, config, available)
    ELSE IF EngineType(config) = K_gemini
    THEN BuildEngine("Gemini", K_gemini, config, available)
    ELSE [out |-> Exit(1), events |-> <<>>,
          prints |-> << <<"Unsupported AI engine: ", "{engine_type}">> >>]

ErrorLine == <<"Error during processing: ", "{e}">>
SuccessLine == <<"Test case generation completed successfully!">>

\* mutant of OnError: "except ValueError" in place of "except Exception"
Mut_OnError_OnlyValueError(out) ==
    IF out.kind = "raise" /\ out.exc = "ValueError"
    THEN [result |-> Exit(1), prints |-> <<ErrorLine>>]
    ELSE [result |-> out, prints |-> <<>>]

\* what main's "except Exception" makes of a stage that did not return: a
\* raise is printed and becomes exit status 1, a sys.exit passes through
OnError(out) ==
    IF CaughtByExceptException(out)
    THEN [result |-> Exit(1), prints |-> <<ErrorLine>>]
    ELSE [result |-> out, prints |-> <<>>]

\* mutant of NoTestcases: the list is not checked before it is saved
Mut_NoTestcases_Unchecked(testcases) == FALSE

\* "if not testcases"
NoTestcases(testcases) == ~Truthy(testcases)

\* the inputs of main: a few paths, configurations and responses
MainFilePaths ==
    {<<"a",".","t","x","t">>, <<"a",".","P","D","F">>, <<"a",".","d","o","c","x">>,
     <<"a",".","m","d">>}

ConfigSections ==
    {PyNone, EmptyDict,
     PyDict([k \in {K_api_key} |-> PyStr(<<>>)]),
     PyDict([k \in {K_api_key} |-> PyNone]),
     PyDict([k \in {K_api_key} |-> PyStr(<<"s","k">>)])}

EngineValues ==
    {PyStr(K_openai), PyStr(<<"O","p","e","n","A","I">>), PyStr(<<"G","E","M","I","N","I">>),
     PyStr(K_gemini), PyStr(<<"c","l","a","u","d","e">>), PyNone, PyInt(1)}

\* a mapping with the given keys: the two engine sections hold the same
ConfigWith(keys, engine_value, section) ==
    PyDict([k \in keys |-> IF k = K_ai_engine THEN engine_value ELSE section])

\* what yaml.safe_load may give: None for an empty file, or a mapping
MainConfigs ==
    {PyNone}
    \cup {ConfigWith({K_ai_engine}, v, PyNone) : v \in EngineValues}
    \cup {ConfigWith({K_openai, K_gemini}, PyNone, sec) : sec \in ConfigSections}
    \cup {ConfigWith({K_ai_engine, K_openai, K_gemini}, v, sec) :
            v \in EngineValues, sec \in ConfigSections}

MainConfigFiles ==
    {ConfigFile(st, PyNone) : st \in {"missing", "yaml_error", "unreadable"}}
    \cup {ConfigFile("ok", c) : c \in MainConfigs}

MainApiOutcomes ==
    {Raise("APIError", <<"{e}">>), Return(PyNone)}
    \cup {Return(Text(toks)) :
            toks \in {<<Junk>>, <<RBracket, Junk, LBracket>>,
                      Dumps(PyList(<<>>)),
                      Dumps(PyList(<<PyNone, PyStr(S_Login)>>)),
                      Dumps(PyList(<<TcOnlyId, EmptyDict>>)),
                      <<Junk>> \o Dumps(PyList(<<TcFull>>)) \o <<Junk>>,
                      Dumps(PyList(<<TcOdd, PyNone, TcListTitle>>))}}

Unset == [t |-> "unset", v |-> <<>>]

InitMain ==
    /\ pc = "main"
    /\ \E f \in MainFilePaths, av \in [EngineNames -> BOOLEAN] :
        args = [NoArgs EXCEPT !.input_file = f, !.available = av]
    /\ env = [call |-> "main", text_content |-> Unset, config |-> Unset,
              ai_engine |-> Unset, testcases |-> Unset, raised |-> Running]
    /\ trace = <<>>
    /\ stdout = <<>>
    /\ result = Running

\* a stage ended with a raise or a sys.exit: main ends
Abort(out, prints, events) ==
    /\ pc' = "exited"
    /\ env' = [env EXCEPT !.raised = out]
    /\ result' = OnError(out).result
    /\ stdout' = stdout \o prints \o OnError(out).prints
    /\ trace' = trace \o events
    /\ UNCHANGED args

\* lines 79-84: the input file must exist
MainCheckInput ==
    /\ pc = "main"
    /\ \E exists \in BOOLEAN :
        IF ~exists
        THEN Abort(Exit(1), << <<"Input file '", "{input_file}", "' not found.">> >>,
                   <<"exists">>)
        ELSE /\ pc' = "extract_text"
             /\ stdout' = stdout \o << <<"Reading requirement document: ", "{input_file}">> >>
             /\ trace' = trace \o <<"exists">>
             /\ UNCHANGED <<args, env, result>>

\* lines 88-93
MainExtractText ==
    /\ pc = "extract_text"
    /\ \E doc \in Documents :
        LET r == extract_text_from_file(args.input_file, doc)
            events == <<"extract_text_from_file">> \o r.events
        IN
        IF r.out.kind # "return" THEN Abort(r.out, <<>>, events)
        ELSE IF Strip(r.out.val.v) = <<>>
        THEN Abort(Exit(1), << <<"No text content found in the document.">> >>, events)
        ELSE /\ pc' = "load_config"
             /\ env' = [env EXCEPT !.text_content = r.out.val]
             /\ stdout' = stdout \o << <<"Extracted ", "{len(text_content)}",
                                        " characters from document">> >>
             /\ trace' = trace \o events
             /\ UNCHANGED <<args, result>>

\* line 96
MainLoadConfig ==
    /\ pc = "load_config"
    /\ \E file \in MainConfigFiles :
        LET r == load_config(file)
            events == <<"load_config">> \o r.events
        IN
        IF r.out.kind # "return" THEN Abort(r.out, r.prints, events)
        ELSE /\ pc' = "get_ai_engine"
             /\ env' = [env EXCEPT !.config = r.out.val]
             /\ trace' = trace \o events
             /\ UNCHANGED <<args, stdout, result>>

\* lines 97-99; line 99 raises AttributeError when the config is no mapping,
\* which cannot happen once get_ai_engine has returned
MainGetEngine ==
    /\ pc = "get_ai_engine"
    /\ LET r == get_ai_engine(env.config, args.available)
           events == <<"get_ai_engine">> \o r.events
       IN
       IF r.out.kind # "return" THEN Abort(r.out, r.prints, events)
       ELSE /\ pc' = "generate_testcases"
            /\ env' = [env EXCEPT !.ai_engine = r.out.val]
            /\ stdout' = stdout \o << <<"Using AI engine: ", "{ai_engine}">> >>
            /\ trace' = trace \o events
            /\ UNCHANGED <<args, result>>

\* lines 102-109
MainGenerate ==
    /\ pc = "generate_testcases"
    /\ \E api \in MainApiOutcomes :
        LET g == generate_testcases(env.ai_engine.v, api)
            events == <<"generate_testcases">> \o g.events
            line == <<"Generating test cases...">>
        IN
        IF g.out.kind # "return" THEN Abort(g.out, <<line>>, events)
        ELSE IF NoTestcases(g.out.val)
        THEN /\ pc' = "exited"
             /\ env' = [env EXCEPT !.testcases = g.out.val, !.raised = Exit(1)]
             /\ result' = Exit(1)
             /\ stdout' = stdout \o <<line, <<"No test cases were generated.">> >>
             /\ trace' = trace \o events
             /\ UNCHANGED args
        ELSE /\ pc' = "save"
             /\ env' = [env EXCEPT !.testcases = g.out.val]
             /\ stdout' = stdout \o <<line, <<"Generated ", "{len(testcases)}", " test cases">> >>
             /\ trace' = trace \o events
             /\ UNCHANGED <<args, result>>

\* lines 112-115
MainSave ==
    /\ pc = "save"
    /\ \E io \in IoOutcomes :
        LET r == save_testcases_to_excel(env.testcases, io)
            events == <<"save_testcases_to_excel">> \o r.events
            line == <<"Saving test cases to: ", "{output}">>
        IN
        IF r.out.kind # "return" THEN Abort(r.out, <<line>> \o r.prints, events)
        ELSE /\ pc' = "done"
             /\ result' = Return(PyNone)
             /\ stdout' = stdout \o <<line>> \o r.prints \o <<SuccessLine>>
             /\ trace' = trace \o events
             /\ UNCHANGED <<args, env>>

Next ==
    \/ MainCheckInput
    \/ MainExtractText
    \/ MainLoadConfig
    \/ MainGetEngine
    \/ MainGenerate
    \/ MainSave

Spec == InitMain /\ [][Next]_vars

---------------------------------------------------------------------------
(* Claims about the engines (SpecEngine) *)

\* the array between the response's first "[" and last "]"
ResponseArray(c) ==
    Loads(Slice(c.v, Find(c.v, LBracket), RFind(c.v, RBracket) + 1)).val.v

\* the defaults as the claims word them, for 1 <= n < 100
ExpectedNumber(n) ==
    IF n < 10 THEN <<DigitChars[n + 1]>>
    ELSE <<DigitChars[(n \div 10) + 1], DigitChars[(n % 10) + 1]>>

ExpectedDefault(k, n) ==
    CASE k = K_feature -> PyStr(<<"F","e","a","t","u","r","e"," ">> \o ExpectedNumber(n))
      [] k = K_test_id ->
            PyStr(<<"T","C">> \o (IF n < 10 THEN <<"0","0">> ELSE <<"0">>) \o ExpectedNumber(n))
      [] k = K_title ->
            PyStr(<<"T","e","s","t"," ","C","a","s","e"," ">> \o ExpectedNumber(n))
      [] k = K_steps -> PyList(<<>>)
      [] k = K_expected_result -> PyStr(<<>>)
      [] k = K_priority -> PyStr(<<"M","e","d","i","u","m">>)

\* record rec is element el (at 1-based position n) with the absent keys defaulted
RecordOf(rec, el, n) ==
    /\ IsDict(rec)
    /\ DOMAIN rec.v = TestCaseKeys
    /\ \A k \in TestCaseKeys :
        rec.v[k] = IF k \in DOMAIN el.v THEN el.v[k] ELSE ExpectedDefault(k, n)

Returned == pc = "returned" /\ result.kind = "return"

\* C4: every record returned by _parse_response (directly or through
\* generate_testcases, for either engine) has exactly the six keys; for some
\* object of the response array at position N, every key the object has keeps
\* the object's value (null included) and every key it lacks has the default
\* for N.
C4_SixKeysValuesOrDefaults ==
    Returned =>
        \A j \in DOMAIN result.val.v :
            \E n \in DOMAIN ResponseArray(env.response) :
                /\ IsDict(ResponseArray(env.response)[n])
                /\ RecordOf(result.val.v[j], ResponseArray(env.response)[n], n)

\* a record that kept a null test_id and a non-list steps and got default priority
C4_Witness ==
    /\ Returned
    /\ args.engine = "Gemini"
    /\ \E j \in DOMAIN result.val.v :
        /\ result.val.v[j].v[K_test_id] = PyNone
        /\ result.val.v[j].v[K_steps] = PyStr(S_Login)
        /\ result.val.v[j].v[K_priority] = PyStr(<<"M","e","d","i","u","m">>)

\* C5: no two records returned by generate_testcases have the same test_id.
C5_UniqueTestIds ==
    (Returned /\ env.call = "generate_testcases") =>
        \A i, j \in DOMAIN result.val.v :
            i # j => result.val.v[i].v[K_test_id] # result.val.v[j].v[K_test_id]

HasToken(c, tok) == \E i \in DOMAIN c.v : c.v[i] = tok
FirstAt(c, tok) == CHOOSE i \in DOMAIN c.v : c.v[i] = tok /\ \A j \in 1..(i - 1) : c.v[j] # tok
LastAt(c, tok) == CHOOSE i \in DOMAIN c.v : c.v[i] = tok /\ \A j \in (i + 1)..Len(c.v) : c.v[j] # tok

ClosedBeforeOpened(c) ==
    HasToken(c, LBracket) /\ HasToken(c, RBracket) /\ LastAt(c, RBracket) < FirstAt(c, LBracket)

Malformed(c) ==
    /\ c.t = "text"
    /\ \/ ~HasToken(c, LBracket)
       \/ ~HasToken(c, RBracket)
       \/ ClosedBeforeOpened(c)
       \/ Loads(SubSeq(c.v, FirstAt(c, LBracket), LastAt(c, RBracket))).kind = "raise"

\* C9: for a malformed response _parse_response raises and returns nothing;
\* when it returns, the response held a "[" ... "]" stretch that is a JSON
\* array and the result is a list; generate_testcases reports a malformed
\* response as an Exception whose message starts "Error calling <engine> API: ".
C9_MalformedRaises ==
    pc = "returned" =>
        /\ Malformed(env.response) => (result.kind = "raise" /\ result.exc = "Exception")
        /\ result.kind = "return" =>
            /\ env.response.t = "text"
            /\ ~Malformed(env.response)
            /\ IsList(Loads(SubSeq(env.response.v, FirstAt(env.response, LBracket),
                                   LastAt(env.response, RBracket))).val)
            /\ IsList(result.val)
        /\ (env.call = "generate_testcases" /\ Malformed(env.response)) =>
            SubSeq(result.msg, 1, 3) = <<"Error calling ", args.engine, " API: ">>

\* generate_testcases on a response whose last "]" comes before its first "["
C9_Witness ==
    /\ pc = "returned"
    /\ env.call = "generate_testcases"
    /\ env.response.t = "text"
    /\ ClosedBeforeOpened(env.response)
    /\ result.kind = "raise"
    /\ args.engine = "OpenAI"

\* the positions of the objects of array arr, in order
ObjectPositions(arr) ==
    LET P == {n \in DOMAIN arr : IsDict(arr[n])} IN
    [j \in 1..Cardinality(P) |-> CHOOSE n \in P : Cardinality({m \in P : m <= n}) = j]

\* C10: the returned list is the response array's objects in their original
\* order, the non-objects dropped, so it is never longer than the array; the
\* N of a record's defaults is the object's 1-based position in the response
\* array.
C10_DropsNonObjectsKeepsNumbers ==
    Returned =>
        LET arr == ResponseArray(env.response)
            pos == ObjectPositions(arr)
        IN
        /\ Len(result.val.v) <= Len(arr)
        /\ Len(result.val.v) = Len(pos)
        /\ \A j \in DOMAIN result.val.v : RecordOf(result.val.v[j], arr[pos[j]], pos[j])

\* the first record comes from the array's second element and is numbered 2
C10_Witness ==
    /\ Returned
    /\ env.call = "_parse_response"
    /\ Len(ResponseArray(env.response)) = 2
    /\ ~IsDict(ResponseArray(env.response)[1])
    /\ Len(result.val.v) = 1
    /\ result.val.v[1].v[K_test_id] = PyStr(<<"T","C","0","0","2">>)
    /\ result.val.v[1].v[K_title] = PyStr(<<"T","e","s","t"," ","C","a","s","e"," ","2">>)

---------------------------------------------------------------------------
(* Claims about the export (SpecExport) *)

\* C6: for a non-empty list save_testcases_to_excel builds one row per test
\* case, in the list's order, each with the nine columns, Status 'Not
\* Executed', Actual Result and Notes empty, whatever the test case holds;
\* for an empty list it raises ValueError('No test cases to export') and
\* makes no directory and no file.
C6_OneRowPerTestCase ==
    (pc = "returned" /\ env.call = "save_testcases_to_excel") =>
        IF args.testcases.v = <<>>
        THEN /\ result.kind = "raise"
             /\ result.exc = "ValueError"
             /\ result.msg = <<"No test cases to export">>
             /\ trace = <<>>
             /\ env.rows = <<>>
        ELSE /\ Len(env.rows) = Len(args.testcases.v)
             /\ \A j \in DOMAIN env.rows :
                  LET row == env.rows[j]
                      tc == args.testcases.v[j]
                  IN
                  /\ DOMAIN row = {"Test ID", "Feature", "Test Case Title", "Test Steps",
                                   "Expected Result", "Priority", "Status", "Actual Result",
                                   "Notes"}
                  /\ row["Status"] = PyStr(<<"N","o","t"," ","E","x","e","c","u","t","e","d">>)
                  /\ row["Actual Result"] = PyStr(<<>>)
                  /\ row["Notes"] = PyStr(<<>>)
                  /\ K_test_id \in DOMAIN tc.v => row["Test ID"] = tc.v[K_test_id]
                  /\ K_title \in DOMAIN tc.v => row["Test Case Title"] = tc.v[K_title]

\* two different test cases, the second with a status of its own, written out
C6_Witness ==
    /\ pc = "returned"
    /\ result.kind = "return"
    /\ Len(env.rows) = 2
    /\ args.testcases.v[1] = TcFull
    /\ args.testcases.v[2] = TcStatus
    /\ env.rows[1]["Test Steps"] =
          PyStr(<<"1", ".", " ", "L","o","g","i","n", "\n", "2", ".", " ", "H","i","g","h">>)
    /\ trace = <<"mkdir", "ExcelWriter">>

---------------------------------------------------------------------------
(* Claims about the text extraction (SpecExtract) *)

\* the path's last component (the text after the last "/", trailing "/" aside)
\* is longer than ext and ends with ext in any mix of cases
EndsWithExtension(path, ext) ==
    LET name == PathName(path) IN
    /\ Len(name) > Len(ext)
    /\ \A i \in 1..Len(ext) : LowerChar(name[Len(name) - Len(ext) + i]) = ext[i]

ExtractorOf(path) ==
    IF EndsWithExtension(path, <<".","p","d","f">>) THEN "extract_text_from_pdf"
    ELSE IF EndsWithExtension(path, <<".","d","o","c","x">>) THEN "extract_text_from_docx"
    ELSE IF EndsWithExtension(path, <<".","t","x","t">>) THEN "extract_text_from_txt"
    ELSE "none"

Extractors == {"extract_text_from_pdf", "extract_text_from_docx", "extract_text_from_txt"}

---------------------------------------------------------------------------
(* Claims about main (Spec) *)

\* the stages of main as they show in the trace, in the order of the code
StageOrder ==
    <<"exists", "extract_text_from_file", "load_config", "get_ai_engine",
      "api_request", "_parse_response", "save_testcases_to_excel">>

StagesOf(tr) == SelectSeq(tr, LAMBDA e : \E i \in DOMAIN StageOrder : StageOrder[i] = e)

IsPrefix(a, b) == Len(a) <= Len(b) /\ a = SubSeq(b, 1, Len(a))

Count(tr, e) == Cardinality({i \in DOMAIN tr : tr[i] = e})

Printed(line) == \E i \in DOMAIN stdout : stdout[i] = line

ErrorHeads ==
    {"Error during processing: ", "Configuration file '", "Error parsing configuration file: ",
     "Unsupported AI engine: ", "No text content found in the document.",
     "No test cases were generated.", "Input file '"}

Failed == env.raised.kind \in {"raise", "exit"}

\* C1: no error leaves main: an error raised by a stage is printed and main
\* ends with exit status 1; after it no stage runs (none is enabled, none
\* ran twice) and the success message is not printed.
C1_ErrorsExitWithStatus1 ==
    /\ result.kind # "raise"
    /\ pc = "exited" => Failed
    /\ Failed =>
        /\ pc = "exited"
        /\ result = Exit(1)
        /\ stdout # <<>>
        /\ Head(stdout[Len(stdout)]) \in ErrorHeads
        /\ env.raised.kind = "raise" =>
                stdout[Len(stdout)] = <<"Error during processing: ", "{e}">>
        /\ ~Printed(<<"Test case generation completed successfully!">>)
        /\ \A e \in {"exists", "extract_text_from_file", "load_config", "get_ai_engine",
                     "generate_testcases", "save_testcases_to_excel"} : Count(trace, e) <= 1
        /\ ~ENABLED Next

\* the spreadsheet could not be written: the last stage raised
C1_Witness ==
    /\ env.raised.kind = "raise"
    /\ env.raised.exc = "OSError"
    /\ Count(trace, "ExcelWriter") = 1
    /\ result = Exit(1)

\* C2: main calls generate_testcases at most once and sends at most one API
\* request; after the request only the parsing of its response and the
\* saving follow, never another request.
C2_AtMostOneApiRequest ==
    /\ Count(trace, "generate_testcases") <= 1
    /\ Count(trace, "api_request") <= 1
    /\ \A i \in DOMAIN trace :
        trace[i] = "api_request" =>
            \A j \in (i + 1)..Len(trace) :
                trace[j] \in {"_parse_response", "save_testcases_to_excel", "mkdir", "ExcelWriter"}
    /\ (Failed /\ Count(trace, "generate_testcases") = 1
                /\ Count(trace, "save_testcases_to_excel") = 0) =>
            /\ Count(trace, "api_request") = 1
            /\ trace[Len(trace)] \in {"api_request", "_parse_response"}

\* an unparsable response: one request, one parse, an error, the end
C2_Witness ==
    /\ pc = "exited"
    /\ env.raised.kind = "raise"
    /\ Len(env.raised.msg) >= 4
    /\ SubSeq(env.raised.msg, 1, 4) =
            <<"Error calling ", "OpenAI", " API: ", "Failed to parse JSON response: ">>
    /\ Count(trace, "api_request") = 1
    /\ trace[Len(trace)] = "_parse_response"

ValidatedRecord(rec) == IsDict(rec) /\ DOMAIN rec.v = TestCaseKeys

\* C3: the stages run in the fixed order, each only after the one before it
\* succeeded (its result is bound); save_testcases_to_excel is called only
\* with a non-empty list of validated records; an empty list ends main with
\* 'No test cases were generated.' and exit status 1, nothing written.
C3_StagesInOrder ==
    /\ IsPrefix(StagesOf(trace), StageOrder)
    /\ Count(trace, "load_config") > 0 =>
            (env.text_content.t = "str" /\ \E i \in DOMAIN env.text_content.v :
                                                env.text_content.v[i] \notin {" ", "\n", "\t"})
    /\ Count(trace, "get_ai_engine") > 0 => env.config # Unset
    /\ Count(trace, "generate_testcases") > 0 => env.ai_engine.t = "engine"
    /\ Count(trace, "save_testcases_to_excel") > 0 =>
            /\ IsList(env.testcases)
            /\ env.testcases.v # <<>>
            /\ \A j \in DOMAIN env.testcases.v : ValidatedRecord(env.testcases.v[j])
    /\ env.testcases = PyList(<<>>) =>
            /\ pc = "exited"
            /\ result = Exit(1)
            /\ stdout[Len(stdout)] = <<"No test cases were generated.">>
            /\ Count(trace, "save_testcases_to_excel") = 0
            /\ Count(trace, "mkdir") = 0
            /\ Count(trace, "ExcelWriter") = 0

\* a run through all seven stages
C3_Witness ==
    /\ pc = "done"
    /\ StagesOf(trace) = StageOrder
    /\ stdout[Len(stdout)] = <<"Test case generation completed successfully!">>
    /\ result.kind = "return"

\* the string s, compared without regard to case, is word
SameIgnoringCase(s, word) ==
    /\ s.t = "str"
    /\ Len(s.v) = Len(word)
    /\ \A i \in DOMAIN word : LowerChar(s.v[i]) = word[i]

\* the engine the configured value names: 'openai' also when the key is absent
Selected(config) ==
    IF K_ai_engine \notin DOMAIN config.v \/ SameIgnoringCase(config.v[K_ai_engine], K_openai)
    THEN "OpenAI"
    ELSE IF SameIgnoringCase(config.v[K_ai_engine], K_gemini) THEN "Gemini"
    ELSE "none"

SectionOf(config) ==
    Get(config, IF Selected(config) = "OpenAI" THEN K_openai ELSE K_gemini, EmptyDict)

\* the selected engine's api_key is missing or empty
ApiKeyMissing(config) ==
    \/ ~IsDict(SectionOf(config))
    \/ K_api_key \notin DOMAIN SectionOf(config).v
    \/ SectionOf(config).v[K_api_key] \in {PyNone, PyStr(<<>>)}

Constructed(class) == Count(trace, class) > 0

GetEngineRan == Count(trace, "get_ai_engine") > 0 /\ IsDict(env.config)

\* C8 as claimed: 'openai' (or no key) builds an OpenAIEngine, 'gemini' a
\* GeminiEngine, any other value prints 'Unsupported AI engine' and exits
\* with status 1; a missing or empty api_key makes construction raise
\* ValueError, and no API request is made.
C8_AsClaimed ==
    GetEngineRan =>
        /\ Selected(env.config) = "OpenAI" =>
                (Constructed("OpenAIEngine") /\ ~Constructed("GeminiEngine"))
        /\ Selected(env.config) = "Gemini" =>
                (Constructed("GeminiEngine") /\ ~Constructed("OpenAIEngine"))
        /\ Selected(env.config) = "none" =>
                /\ stdout[Len(stdout)] = <<"Unsupported AI engine: ", "{engine_type}">>
                /\ result = Exit(1)
        /\ (Selected(env.config) # "none" /\ ApiKeyMissing(env.config)) =>
                /\ env.raised.kind = "raise"
                /\ env.raised.exc = "ValueError"
                /\ Count(trace, "api_request") = 0

\* C8 amended: the selection holds for a string value (a value that is no
\* string raises AttributeError, which main reports with exit status 1), and
\* the constructor is called when the engine's section is a mapping or
\* absent; a missing or empty api_key raises ValueError, or ImportError when
\* the engine's package is not installed, or AttributeError when the section
\* is no mapping, and no API request is made.
C8_SelectsEngine ==
    GetEngineRan =>
        LET value == Get(env.config, K_ai_engine, PyStr(K_openai))
            sel == Selected(env.config)
        IN
        /\ (sel = "OpenAI" /\ IsDict(SectionOf(env.config))) => Constructed("OpenAIEngine")
        /\ (sel = "Gemini" /\ IsDict(SectionOf(env.config))) => Constructed("GeminiEngine")
        /\ sel # "OpenAI" => ~Constructed("OpenAIEngine")
        /\ sel # "Gemini" => ~Constructed("GeminiEngine")
        /\ (sel = "none" /\ value.t = "str") =>
                /\ stdout[Len(stdout)] = <<"Unsupported AI engine: ", "{engine_type}">>
                /\ env.raised = Exit(1)
                /\ result = Exit(1)
        /\ value.t # "str" =>
                /\ env.raised.kind = "raise"
                /\ env.raised.exc = "AttributeError"
                /\ stdout[Len(stdout)] = <<"Error during processing: ", "{e}">>
                /\ result = Exit(1)
        /\ (sel # "none" /\ ApiKeyMissing(env.config)) =>
                /\ env.raised.kind = "raise"
                /\ env.raised.exc =
                        IF ~IsDict(SectionOf(env.config)) THEN "AttributeError"
                        ELSE IF ~args.available[sel] THEN "ImportError"
                        ELSE "ValueError"
                /\ result = Exit(1)
                /\ Count(trace, "api_request") = 0

\* 'GEMINI' in capitals with an empty api_key: the Gemini constructor raised
\* ValueError and nothing was requested
C8_Witness ==
    /\ GetEngineRan
    /\ K_ai_engine \in DOMAIN env.config.v
    /\ env.config.v[K_ai_engine] = PyStr(<<"G","E","M","I","N","I">>)
    /\ SectionOf(env.config) = PyDict([k \in {K_api_key} |-> PyStr(<<>>)])
    /\ Constructed("GeminiEngine")
    /\ env.raised.exc = "ValueError"
    /\ result = Exit(1)

===========================================================================
